---- MODULE Spec2Model ----
(***************************************************************************)
(* Model of rw/httpbase.py: Application.__call__ and the RequestHandler    *)
(* override of tornado.web.RequestHandler (flush, finish, _execute,        *)
(* _execute_method).  One request is followed from construction of its     *)
(* handler to the end of its response.  Methods the class inherits from    *)
(* tornado 3.x (write, set_status, set_header, set_etag_header,            *)
(* check_etag_header, _clear_headers_for_304, _generate_headers,           *)
(* check_xsrf_cookie, _when_complete, _handle_request_exception,           *)
(* send_error, write_error, clear) are modelled at the place httpbase.py   *)
(* calls them.                                                             *)
(***************************************************************************)
EXTENDS Integers, Sequences, FiniteSets, TLC

VARIABLES
    request,      \* the HTTPRequest: method, If-None-Match, XSRF token (read only)
    application,  \* Application.settings and the handler class attributes
    handler,      \* the RequestHandler object's fields
    connection,   \* the transport behind request.write / request.finish
    hooks,        \* how often each collaborator / hook has been entered
    pc,           \* where the request is in _execute's sequence
    last,         \* the most recent call made on the handler, with its outcome
    calls,        \* number of application calls made on the handler so far
    scopes        \* the rw.scope stack Application.__call__ enters and leaves

vars == <<request, application, handler, connection, hooks, pc, last, calls,
          scopes>>

(***************************************************************************)
(* Bounds of the model.                                                    *)
(***************************************************************************)
\* application calls (write/flush/finish/set_status/set_header) per request
MaxCalls == 3
\* chunks the write buffer may hold before the application must flush
MaxBuffer == 2
\* requests the transport hands to Application.__call__, one after another
MaxRequests == 2
\* output transforms _execute may be given
MaxTransforms == 2

(***************************************************************************)
(* Values the request and the application code may use.                    *)
(***************************************************************************)
Methods == {"GET", "HEAD", "POST", "PUT", "OPTIONS"}
Chunks == {"ab", "cd"}
NoChunk == "<None>"
NoCallback == "<None>"
Callbacks == {NoCallback, "cb"}
XsrfTokens == {"missing", "mismatch", "valid"}
\* the requests followed: a GET, HEAD or OPTIONS request submits no form and
\* so carries no _xsrf argument
Requests == {r \in [method : Methods,
                    if_none_match : {<<>>, <<"\"sha1(ab)\"", "\"sha1(abcd)\"">>},
                    xsrf_token : XsrfTokens] :
               r.method \in {"GET", "HEAD", "OPTIONS"} => r.xsrf_token = "missing"}
\* output transforms, and the lists of them _execute may receive
Transforms == {"gz", "ch"}
TransformLists == UNION {[1..n -> Transforms] : n \in 0..MaxTransforms}

\* tornado's RequestHandler.SUPPORTED_METHODS, and a subclass restricting it
TornadoSupported == {"GET", "HEAD", "POST", "DELETE", "PATCH", "PUT", "OPTIONS"}
SupportedSets == {TornadoSupported, {"GET", "HEAD"}}

\* headers tornado forbids on a 304 response
Disallowed304 == {"Allow", "Content-Encoding", "Content-Language", "Content-Length",
                  "Content-MD5", "Content-Range", "Content-Type", "Last-Modified"}

(***************************************************************************)
(* Pure helpers.                                                           *)
(***************************************************************************)
\* b"".join(parts)
RECURSIVE Join(_)
Join(parts) == IF parts = <<>> THEN "" ELSE Head(parts) \o Join(Tail(parts))

\* sum(len(part) for part in parts)
RECURSIVE SumLen(_)
SumLen(parts) == IF parts = <<>> THEN 0 ELSE Len(Head(parts)) + SumLen(Tail(parts))

\* hashlib.sha1 over the parts in order, as an injective digest of their bytes
Sha1(parts) == "sha1(" \o Join(parts) \o ")"

\* compute_etag(): the quoted digest of the write buffer
compute_etag(h) == "\"" \o Sha1(h.write_buffer) \o "\""

Has(headers, name) == name \in DOMAIN headers

\* headers[name] = value, replacing any earlier value
Put(headers, name, value) ==
    [n \in (DOMAIN headers) \cup {name} |-> IF n = name THEN value ELSE headers[n]]

Remove(headers, names) == [n \in (DOMAIN headers) \ names |-> headers[n]]

\* the headers clear() installs
DefaultHeaders ==
    [n \in {"Server", "Content-Type", "Date"} |->
        CASE n = "Server" -> "TornadoServer"
          [] n = "Content-Type" -> "text/html; charset=UTF-8"
          [] n = "Date" -> "now"]

\* the page write_error() produces for a status code
ErrorPage(status) ==
    CASE status = 403 -> "<html>403</html>"
      [] status = 405 -> "<html>405</html>"
      [] OTHER -> "<html>500</html>"

(***************************************************************************)
(* The handler and its transport as one value w = [h, c, k, err]: h the    *)
(* handler's fields, c the connection, k the hook counters, err the        *)
(* exception in flight.                                                    *)
(***************************************************************************)
NoError == "none"
World == [h |-> handler, c |-> connection, k |-> hooks, err |-> NoError]

\* raise e: the exception is in flight until an except clause takes it
Raise(w, e) == [w EXCEPT !.err = e, !.k.raised = @ + 1]

\* a transform of the output pipeline: its two capabilities.  Each leaves its
\* mark on what it is given: transform_first_chunk adds its name to the
\* X-Transform header and wraps the chunk in <name>, transform_chunk wraps
\* the chunk in (name); a $ after the name says include_footers was true.
Footer(include_footers) == IF include_footers THEN "$" ELSE ""
transform_first_chunk(t, status, headers, chunk, include_footers) ==
    [status |-> status,
     headers |-> Put(headers, "X-Transform",
                     (IF Has(headers, "X-Transform") THEN headers["X-Transform"]
                      ELSE "") \o t),
     chunk |-> chunk \o "<" \o t \o Footer(include_footers) \o ">"]
transform_chunk(t, chunk, include_footers) ==
    chunk \o "(" \o t \o Footer(include_footers) \o ")"

\* the first-chunk loop walking self._transforms from its last element
RECURSIVE ApplyFirst_last_to_first(_, _, _)
ApplyFirst_last_to_first(ts, triple, include_footers) ==
    IF ts = <<>> THEN triple
    ELSE LET t == ts[Len(ts)]
         IN  ApplyFirst_last_to_first(
                 SubSeq(ts, 1, Len(ts) - 1),
                 transform_first_chunk(t, triple.status, triple.headers,
                                       triple.chunk, include_footers),
                 include_footers)

\* for transform in self._transforms: ... transform_first_chunk(...)
RECURSIVE ApplyFirst(_, _, _)
ApplyFirst(ts, triple, include_footers) ==
    IF ts = <<>> THEN triple
    ELSE ApplyFirst(Tail(ts),
                    transform_first_chunk(Head(ts), triple.status, triple.headers,
                                          triple.chunk, include_footers),
                    include_footers)

\* for transform in self._transforms: chunk = transform.transform_chunk(...)
RECURSIVE ApplyChunk(_, _, _)
ApplyChunk(ts, chunk, include_footers) ==
    IF ts = <<>> THEN chunk
    ELSE ApplyChunk(Tail(ts), transform_chunk(Head(ts), chunk, include_footers),
                    include_footers)

\* _generate_headers(): the status line and every header of the response
generate_headers(h) == [status |-> h.status_code, headers |-> h.headers]

\* self.request.write(data, callback=callback); data = head + body.  The
\* connection keeps the callback of its latest write, and only that one
request_write(w, head, body, callback) ==
    [w EXCEPT !.c.writes = Append(@, [head |-> head, body |-> body,
                                       callback |-> callback]),
              !.c.write_callback =
                  IF callback = NoCallback THEN <<>>
                  ELSE <<[callback |-> callback, flush |-> w.k.flushes]>>]

\* the transport acknowledges its writes: the callback it keeps is run
on_write_complete(w) ==
    [w EXCEPT !.c.write_callback = <<>>,
              !.k.invoked = Append(@, [callback |-> w.c.write_callback[1].callback,
                                       flush |-> w.c.write_callback[1].flush,
                                       at |-> w.k.flushes])]

\* self.request.finish()
request_finish(w) == [w EXCEPT !.c.finished = @ + 1]

\* self.write(chunk)
write(w, chunk) ==
    IF w.h.finished THEN Raise(w, "RuntimeError")
    ELSE [w EXCEPT !.h.write_buffer = Append(@, chunk)]

\* self.set_status(status_code)
set_status(w, status) == [w EXCEPT !.h.status_code = status]

\* self.set_header(name, value)
set_header(w, name, value) == [w EXCEPT !.h.headers = Put(@, name, value)]

\* self.set_etag_header()
set_etag_header(w) == set_header(w, "Etag", compute_etag(w.h))

\* self.check_etag_header(): the Etag is among the client's If-None-Match tags
check_etag_header(w) ==
    /\ Has(w.h.headers, "Etag")
    /\ \E i \in 1..Len(request.if_none_match) :
          request.if_none_match[i] = w.h.headers["Etag"]

\* self._clear_headers_for_304()
clear_headers_for_304(w) == [w EXCEPT !.h.headers = Remove(@, Disallowed304)]

\* self.clear()
clear(w) == [w EXCEPT !.h.headers = DefaultHeaders, !.h.write_buffer = <<>>,
                      !.h.status_code = 200]

\* flush() that leaves _headers_written as it was
flush_headers_never_marked(w, include_footers, callback) ==
    LET h == w.h
        chunk == Join(h.write_buffer)
        first == ~h.headers_written
        out == IF first
               THEN ApplyFirst(h.transforms,
                               [status |-> h.status_code, headers |-> h.headers,
                                chunk |-> chunk], include_footers)
               ELSE [status |-> h.status_code, headers |-> h.headers,
                     chunk |-> ApplyChunk(h.transforms, chunk, include_footers)]
        h1 == [h EXCEPT !.write_buffer = <<>>,
                        !.status_code = out.status, !.headers = out.headers]
        headers == IF first THEN <<generate_headers(h1)>> ELSE <<>>
        w1 == [w EXCEPT !.h = h1, !.k.flushes = @ + 1,
                        !.k.footers = Append(@, include_footers),
                        !.k.generated = IF first THEN @ + 1 ELSE @]
    IN  IF request.method = "HEAD"
        THEN IF headers # <<>> THEN request_write(w1, headers, "", callback) ELSE w1
        ELSE request_write(w1, headers, out.chunk, callback)

\* flush() without the special case for HEAD requests
flush_head_sends_body(w, include_footers, callback) ==
    LET h == w.h
        chunk == Join(h.write_buffer)
        first == ~h.headers_written
        out == IF first
               THEN ApplyFirst(h.transforms,
                               [status |-> h.status_code, headers |-> h.headers,
                                chunk |-> chunk], include_footers)
               ELSE [status |-> h.status_code, headers |-> h.headers,
                     chunk |-> ApplyChunk(h.transforms, chunk, include_footers)]
        h1 == [h EXCEPT !.write_buffer = <<>>, !.headers_written = TRUE,
                        !.status_code = out.status, !.headers = out.headers]
        headers == IF first THEN <<generate_headers(h1)>> ELSE <<>>
        w1 == [w EXCEPT !.h = h1, !.k.flushes = @ + 1,
                        !.k.footers = Append(@, include_footers),
                        !.k.generated = IF first THEN @ + 1 ELSE @]
    IN  request_write(w1, headers, out.chunk, callback)

\* flush() that leaves the chunks it sent in the write buffer
flush_keeps_buffer(w, include_footers, callback) ==
    LET h == w.h
        chunk == Join(h.write_buffer)
        first == ~h.headers_written
        out == IF first
               THEN ApplyFirst(h.transforms,
                               [status |-> h.status_code, headers |-> h.headers,
                                chunk |-> chunk], include_footers)
               ELSE [status |-> h.status_code, headers |-> h.headers,
                     chunk |-> ApplyChunk(h.transforms, chunk, include_footers)]
        h1 == [h EXCEPT !.headers_written = TRUE,
                        !.status_code = out.status, !.headers = out.headers]
        headers == IF first THEN <<generate_headers(h1)>> ELSE <<>>
        w1 == [w EXCEPT !.h = h1, !.k.flushes = @ + 1,
                        !.k.footers = Append(@, include_footers),
                        !.k.generated = IF first THEN @ + 1 ELSE @]
    IN  IF request.method = "HEAD"
        THEN IF headers # <<>> THEN request_write(w1, headers, "", callback) ELSE w1
        ELSE request_write(w1, headers, out.chunk, callback)

\* RequestHandler.flush(include_footers, callback)
flush(w, include_footers, callback) ==
    LET h == w.h
        chunk == Join(h.write_buffer)
        first == ~h.headers_written
        out == IF first
               THEN ApplyFirst(h.transforms,
                               [status |-> h.status_code, headers |-> h.headers,
                                chunk |-> chunk], include_footers)
               ELSE [status |-> h.status_code, headers |-> h.headers,
                     chunk |-> ApplyChunk(h.transforms, chunk, include_footers)]
        h1 == [h EXCEPT !.write_buffer = <<>>, !.headers_written = TRUE,
                        !.status_code = out.status, !.headers = out.headers]
        headers == IF first THEN <<generate_headers(h1)>> ELSE <<>>
        w1 == [w EXCEPT !.h = h1, !.k.flushes = @ + 1,
                        !.k.footers = Append(@, include_footers),
                        !.k.generated = IF first THEN @ + 1 ELSE @]
    IN  IF request.method = "HEAD"
        THEN IF headers # <<>> THEN request_write(w1, headers, "", callback) ELSE w1
        ELSE request_write(w1, headers, out.chunk, callback)

\* finish() before the first header write, never setting an ETag
finish_headers_no_etag(w) ==
    IF w.h.status_code = 304
    THEN IF w.h.write_buffer # <<>>
         THEN Raise(w, "AssertionError")
         ELSE clear_headers_for_304(w)
    ELSE IF ~Has(w.h.headers, "Content-Length")
         THEN set_header(w, "Content-Length", SumLen(w.h.write_buffer))
         ELSE w

\* finish() before the first header write, keeping every header on a 304
finish_headers_keeps_304_headers(w) ==
    LET w1 == IF /\ w.h.status_code = 200
                 /\ request.method \in {"GET", "HEAD"}
                 /\ ~Has(w.h.headers, "Etag")
              THEN LET e == set_etag_header(w)
                   IN  IF check_etag_header(e)
                       THEN set_status([e EXCEPT !.h.write_buffer = <<>>], 304)
                       ELSE e
              ELSE w
    IN  IF w1.h.status_code = 304
        THEN IF w1.h.write_buffer # <<>>
             THEN Raise(w1, "AssertionError")
             ELSE w1
        ELSE IF ~Has(w1.h.headers, "Content-Length")
             THEN set_header(w1, "Content-Length", SumLen(w1.h.write_buffer))
             ELSE w1

\* finish() before the first header write, counting chunks instead of bytes
finish_headers_counts_chunks(w) ==
    LET w1 == IF /\ w.h.status_code = 200
                 /\ request.method \in {"GET", "HEAD"}
                 /\ ~Has(w.h.headers, "Etag")
              THEN LET e == set_etag_header(w)
                   IN  IF check_etag_header(e)
                       THEN set_status([e EXCEPT !.h.write_buffer = <<>>], 304)
                       ELSE e
              ELSE w
    IN  IF w1.h.status_code = 304
        THEN IF w1.h.write_buffer # <<>>
             THEN Raise(w1, "AssertionError")
             ELSE clear_headers_for_304(w1)
        ELSE IF ~Has(w1.h.headers, "Content-Length")
             THEN set_header(w1, "Content-Length", Len(w1.h.write_buffer))
             ELSE w1

\* the part of finish() that runs only while no header has been written:
\* the automatic ETag, the 304 rules and the Content-Length
finish_headers(w) ==
    LET w1 == IF /\ w.h.status_code = 200
                 /\ request.method \in {"GET", "HEAD"}
                 /\ ~Has(w.h.headers, "Etag")
              THEN LET e == set_etag_header(w)
                   IN  IF check_etag_header(e)
                       THEN set_status([e EXCEPT !.h.write_buffer = <<>>], 304)
                       ELSE e
              ELSE w
    IN  IF w1.h.status_code = 304
        THEN IF w1.h.write_buffer # <<>>
             THEN Raise(w1, "AssertionError")
             ELSE clear_headers_for_304(w1)
        ELSE IF ~Has(w1.h.headers, "Content-Length")
             THEN set_header(w1, "Content-Length", SumLen(w1.h.write_buffer))
             ELSE w1

\* self.on_finish(): the hook, entered with the finished flag it sees
on_finish(w) == [w EXCEPT !.k.on_finish = Append(@, w.h.finished)]

\* a step of finish() is taken: it is noted in the order it happens
Step(w, name) == [w EXCEPT !.k.trace = Append(@, name)]

\* self.request.connection.set_close_callback(None)
detach_close_callback(w) == [w EXCEPT !.c.close_callback = "none"]

\* the end of finish() without its final flush
finish_tail_no_flush(w) ==
    LET w1 == Step(detach_close_callback(w), "set_close_callback(None)")
        w3 == Step(request_finish(w1), "request.finish")
        w4 == Step([w3 EXCEPT !.k.logged = @ + 1], "_log")
        w5 == Step([w4 EXCEPT !.h.finished = TRUE], "_finished = True")
    IN  Step(on_finish(w5), "on_finish")

\* the end of finish() running on_finish() before the finished flag is set
finish_tail_hook_first(w) ==
    LET w1 == Step(detach_close_callback(w), "set_close_callback(None)")
        w2 == Step(flush(w1, TRUE, NoCallback), "flush")
        w3 == Step(request_finish(w2), "request.finish")
        w4 == Step([w3 EXCEPT !.k.logged = @ + 1], "_log")
        w5 == Step(on_finish(w4), "on_finish")
    IN  Step([w5 EXCEPT !.h.finished = TRUE], "_finished = True")

\* the end of finish(): detach the close callback, flush with footers,
\* finish the transport, log, mark finished, run on_finish()
finish_tail(w) ==
    LET w1 == Step(detach_close_callback(w), "set_close_callback(None)")
        w2 == Step(flush(w1, TRUE, NoCallback), "flush")
        w3 == Step(request_finish(w2), "request.finish")
        w4 == Step([w3 EXCEPT !.k.logged = @ + 1], "_log")
        w5 == Step([w4 EXCEPT !.h.finished = TRUE], "_finished = True")
    IN  Step(on_finish(w5), "on_finish")

\* finish() without the check of the finished flag
finish_no_guard(w, chunk) ==
    LET w1 == IF chunk # NoChunk THEN write(w, chunk) ELSE w
        w2 == IF ~w1.h.headers_written THEN finish_headers(w1) ELSE w1
    IN  IF w2.err # NoError THEN w2 ELSE finish_tail(w2)

\* RequestHandler.finish(chunk)
finish(w, chunk) ==
    IF w.h.finished THEN Raise(w, "RuntimeError")
    ELSE LET w1 == IF chunk # NoChunk THEN write(w, chunk) ELSE w
             w2 == IF ~w1.h.headers_written THEN finish_headers(w1) ELSE w1
         IN  IF w2.err # NoError THEN w2 ELSE finish_tail(w2)

\* write_error(status_code): the default error page, sent with finish()
write_error(w, status) == finish(w, ErrorPage(status))

\* send_error(status_code)
send_error(w, status) ==
    IF w.h.headers_written
    THEN IF ~w.h.finished THEN finish(w, NoChunk) ELSE w
    ELSE LET w1 == set_status(clear(w), status)
             w2 == write_error(w1, status)
             \* an exception of write_error is logged, not raised
             w3 == [w2 EXCEPT !.err = NoError]
         IN  IF ~w3.h.finished THEN finish(w3, NoChunk) ELSE w3

\* the status send_error is given for an exception
StatusOf(e) == CASE e = "HTTPError(405)" -> 405
                 [] e = "HTTPError(403)" -> 403
                 [] OTHER -> 500

\* _handle_request_exception(e)
handle_request_exception(w, e) ==
    LET w1 == [w EXCEPT !.err = NoError, !.k.exc_handled = Append(@, e)]
    IN  IF w1.h.finished THEN w1 ELSE send_error(w1, StatusOf(e))

\* self.check_xsrf_cookie()
check_xsrf_cookie(w) ==
    LET w1 == [w EXCEPT !.k.xsrf_checks = @ + 1]
    IN  IF request.xsrf_token = "valid" THEN w1 ELSE Raise(w1, "HTTPError(403)")

\* self.prepare(): the hook returns None or a pending Future, or raises
PrepareOutcomes == {"none", "future", "raise"}
prepare(w, outcome) ==
    LET w1 == [w EXCEPT !.k.prepare_calls = @ + 1,
                        !.k.prepared = CASE outcome = "none" -> "done"
                                         [] outcome = "future" -> "pending"
                                         [] OTHER -> "failed"]
    IN  IF outcome = "raise" THEN Raise(w1, "Exception") ELSE w1

\* the Future prepare() returned resolves, with None or with an exception
prepare_resolved(w, ok) ==
    LET w1 == [w EXCEPT !.k.prepared = IF ok THEN "done" ELSE "failed"]
    IN  IF ok THEN w1 ELSE Raise(w1, "Exception")

\* _execute_method(): hand the request to the routing collaborator
execute_method(w) == [w EXCEPT !.k.route_calls = @ + 1]

\* root._handle_request returns to _execute_method with tornado's
\* auto-finish in force: the response is finished for the application
dispatch_return_auto_finish(w) == IF ~w.h.finished THEN finish(w, NoChunk) ELSE w

\* root._handle_request returns to _execute_method, which does nothing more
dispatch_return(w) == w

\* _when_complete(result, callback) with the result prepare() gave
when_complete(w, outcome) == IF outcome = "none" THEN execute_method(w) ELSE w

\* the try block without the check of the request method
execute_try_no_method_check(w, outcome) ==
    LET w1 == IF /\ request.method \notin {"GET", "HEAD", "OPTIONS"}
                 /\ application.settings.xsrf_cookies
              THEN check_xsrf_cookie(w)
              ELSE w
    IN  IF w1.err # NoError THEN w1
        ELSE LET w2 == prepare(w1, outcome)
             IN  IF w2.err # NoError THEN w2 ELSE when_complete(w2, outcome)

\* the try block checking the XSRF cookie whatever the method
execute_try_xsrf_any_method(w, outcome) ==
    IF request.method \notin application.SUPPORTED_METHODS
    THEN Raise(w, "HTTPError(405)")
    ELSE LET w1 == IF application.settings.xsrf_cookies
                   THEN check_xsrf_cookie(w)
                   ELSE w
         IN  IF w1.err # NoError THEN w1
             ELSE LET w2 == prepare(w1, outcome)
                  IN  IF w2.err # NoError THEN w2 ELSE when_complete(w2, outcome)

\* the try block calling _execute_method without waiting for prepare()
execute_try_dispatches_directly(w, outcome) ==
    IF request.method \notin application.SUPPORTED_METHODS
    THEN Raise(w, "HTTPError(405)")
    ELSE LET w1 == IF /\ request.method \notin {"GET", "HEAD", "OPTIONS"}
                      /\ application.settings.xsrf_cookies
                   THEN check_xsrf_cookie(w)
                   ELSE w
         IN  IF w1.err # NoError THEN w1
             ELSE LET w2 == prepare(w1, outcome)
                  IN  IF w2.err # NoError THEN w2 ELSE execute_method(w2)

\* the body of _execute's try block
execute_try(w, outcome) ==
    IF request.method \notin application.SUPPORTED_METHODS
    THEN Raise(w, "HTTPError(405)")
    ELSE LET w1 == IF /\ request.method \notin {"GET", "HEAD", "OPTIONS"}
                      /\ application.settings.xsrf_cookies
                   THEN check_xsrf_cookie(w)
                   ELSE w
         IN  IF w1.err # NoError THEN w1
             ELSE LET w2 == prepare(w1, outcome)
                  IN  IF w2.err # NoError THEN w2 ELSE when_complete(w2, outcome)

\* _execute without its except clause
execute_no_except(w, transforms, outcome) ==
    execute_try([w EXCEPT !.h.transforms = transforms], outcome)

\* _execute(transforms): the try block and its except clause
execute(w, transforms, outcome) ==
    LET w0 == [w EXCEPT !.h.transforms = transforms]
        w1 == execute_try(w0, outcome)
    IN  IF w1.err # NoError THEN handle_request_exception(w1, w1.err) ELSE w1

(***************************************************************************)
(* rw.scope and Application.__call__.  A Scope is entered by `with          *)
(* scope():` and left at the end of the with block; the scopes entered and  *)
(* not yet left form a stack.  The application scope is scope 0; request    *)
(* scopes are numbered in the order rw.scope.Scope() creates them.          *)
(***************************************************************************)
AppScope == 0

\* rw.scope.Scope(): a new scope object
Scope(s) == [s EXCEPT !.created = @ + 1]

Event(s, ev, scope) == [s EXCEPT !.log = Append(@, [ev |-> ev, scope |-> scope])]

\* with scope(): entering the block
scope_enter(s, scope) == Event([s EXCEPT !.stack = Append(@, scope)], "enter", scope)

\* with scope(): leaving the block
scope_exit(s) ==
    Event([s EXCEPT !.stack = SubSeq(@, 1, Len(@) - 1)], "exit", s.stack[Len(s.stack)])

\* __init__ of the handler class
NewHandler == [write_buffer |-> <<>>, headers_written |-> FALSE,
               finished |-> FALSE, auto_finish |-> FALSE,
               status_code |-> 200, headers |-> DefaultHeaders,
               transforms |-> <<>>]

\* __call__ entering the scope of the previous request again instead of a
\* new one
call_shared_scope(w, s, outcome) ==
    LET s1 == scope_enter(s, AppScope)
        s2 == IF s1.created = 0 THEN Scope(s1) ELSE s1
        request_scope == s2.created
        s3 == scope_enter(s2, request_scope)
        s4 == Event([s3 EXCEPT !.used = Append(@, request_scope)],
                    "handler", request_scope)
    IN  [w |-> execute([w EXCEPT !.h = NewHandler], <<>>, outcome),
         s |-> Event(s4, "_execute", request_scope)]

\* Application.__call__(request) up to the point handler._execute([]) gives
\* control back
call(w, s, outcome) ==
    LET s1 == scope_enter(s, AppScope)
        s2 == Scope(s1)
        request_scope == s2.created
        s3 == scope_enter(s2, request_scope)
        s4 == Event([s3 EXCEPT !.used = Append(@, request_scope)],
                    "handler", request_scope)
    IN  [w |-> execute([w EXCEPT !.h = NewHandler], <<>>, outcome),
         s |-> Event(s4, "_execute", request_scope)]

\* Application.__call__: _execute has returned, the two with blocks end
call_return(s) == IF s.stack = <<>> THEN s ELSE scope_exit(scope_exit(s))

(***************************************************************************)
(* The state machine.                                                      *)
(***************************************************************************)
\* what a call found: the handler, and how much the transport and the
\* exception handler had seen
Snapshot == [h |-> handler, writes |-> Len(connection.writes),
             finished |-> connection.finished, raised |-> hooks.raised,
             exc_handled |-> Len(hooks.exc_handled), flushes |-> hooks.flushes,
             close_callback |-> connection.close_callback]

\* the new state after an operation that turned World into w
Becomes(w, op, arg) ==
    /\ handler' = w.h
    /\ connection' = w.c
    /\ hooks' = w.k
    /\ last' = [op |-> op, arg |-> arg, err |-> w.err, pre |-> Snapshot]
    /\ UNCHANGED <<request, application>>

\* the connection of a request nothing has been written to
NewConnection == [writes |-> <<>>, finished |-> 0, close_callback |-> "none",
                  write_callback |-> <<>>]

\* no collaborator or hook has been entered
NoHooks == [xsrf_checks |-> 0, prepare_calls |-> 0, route_calls |-> 0,
            exc_handled |-> <<>>, raised |-> 0, on_finish |-> <<>>,
            logged |-> 0, generated |-> 0, flushes |-> 0, invoked |-> <<>>,
            footers |-> <<>>, trace |-> <<>>, prepared |-> "no",
            app_finish |-> 0]

Init ==
    /\ request \in Requests
    /\ application \in [settings : [xsrf_cookies : BOOLEAN],
                        SUPPORTED_METHODS : SupportedSets]
    \* RequestHandler.__init__
    /\ handler = NewHandler
    /\ connection = NewConnection
    /\ hooks = NoHooks
    /\ pc = "new"
    /\ last = [op |-> "init", arg |-> NoChunk, err |-> NoError, pre |-> Snapshot]
    /\ calls = 0
    /\ scopes = [stack |-> <<>>, created |-> 0, used |-> <<>>, log |-> <<>>]

\* where _execute left the request
After(w, outcome) ==
    IF w.k.exc_handled # <<>> \/ w.err # NoError THEN "error"
    ELSE IF outcome = "future" THEN "prepare" ELSE "dispatch"

\* handler._execute(transforms)
ExecuteWith(transforms) ==
    /\ pc = "new"
    /\ \E outcome \in PrepareOutcomes :
         LET w == execute(World, transforms, outcome)
         IN  /\ Becomes(w, "_execute", outcome)
             /\ pc' = After(w, outcome)
    /\ UNCHANGED <<calls, scopes>>

\* handler._execute([]), as Application.__call__ makes it
Execute == ExecuteWith(<<>>)

\* handler._execute(transforms) with output transforms
ExecuteTransforms == \E transforms \in TransformLists : ExecuteWith(transforms)

\* Application.__call__(request): the scopes are held while the routed code
\* runs inside _execute, and left as soon as _execute returns
Call ==
    /\ pc = "new"
    /\ \E outcome \in PrepareOutcomes :
         LET r == call(World, scopes, outcome)
         IN  /\ Becomes(r.w, "_execute", outcome)
             /\ pc' = After(r.w, outcome)
             /\ scopes' = IF After(r.w, outcome) = "dispatch" THEN r.s
                          ELSE call_return(r.s)
    /\ UNCHANGED calls

\* the transport hands the next request to Application.__call__; the model
\* follows the newest request
Accept ==
    /\ scopes.stack = <<>>
    /\ pc # "new"
    /\ Len(scopes.used) < MaxRequests
    /\ request' \in Requests
    /\ handler' = NewHandler
    /\ connection' = NewConnection
    /\ hooks' = NoHooks
    /\ pc' = "new"
    /\ last' = [op |-> "init", arg |-> NoChunk, err |-> NoError,
                pre |-> [h |-> NewHandler, writes |-> 0, finished |-> 0,
                         raised |-> 0, exc_handled |-> 0, flushes |-> 0,
                         close_callback |-> "none"]]
    /\ calls' = 0
    /\ scopes' = [scopes EXCEPT !.log = <<>>]
    /\ UNCHANGED application

\* the Future prepare() returned resolves: _when_complete runs again
PrepareResolve ==
    /\ pc = "prepare"
    /\ \E ok \in BOOLEAN :
         LET r == prepare_resolved(World, ok)
             w == IF ok THEN execute_method(r)
                  ELSE handle_request_exception(r, r.err)
         IN  /\ Becomes(w, "_when_complete", IF ok THEN "none" ELSE "raise")
             /\ pc' = IF ok THEN "dispatch" ELSE "error"
    /\ UNCHANGED <<calls, scopes>>

\* root._handle_request returns
DispatchReturn ==
    /\ pc = "dispatch"
    /\ LET w == dispatch_return(World)
       IN  /\ handler' = w.h
           /\ connection' = w.c
           /\ hooks' = w.k
    /\ pc' = "returned"
    /\ scopes' = call_return(scopes)
    /\ UNCHANGED <<request, application, last, calls>>

\* root._handle_request raises: _when_complete's except clause
DispatchRaise ==
    /\ pc = "dispatch"
    /\ Becomes(handle_request_exception(Raise(World, "Exception"), "Exception"),
               "_handle_request", "raise")
    /\ pc' = "error"
    /\ scopes' = call_return(scopes)
    /\ UNCHANGED calls

\* the application code may use the handler from prepare() on
Running == pc \in {"prepare", "dispatch", "returned"} /\ calls < MaxCalls

Write ==
    /\ Running
    /\ Len(handler.write_buffer) < MaxBuffer
    /\ \E chunk \in Chunks : Becomes(write(World, chunk), "write", chunk)
    /\ calls' = calls + 1
    /\ UNCHANGED <<pc, scopes>>

Flush ==
    /\ Running
    /\ \E callback \in Callbacks :
         Becomes(flush(World, FALSE, callback), "flush", callback)
    /\ calls' = calls + 1
    /\ UNCHANGED <<pc, scopes>>

Finish ==
    /\ Running
    /\ \E chunk \in Chunks \cup {NoChunk} :
         Becomes(finish([World EXCEPT !.k.app_finish = @ + 1], chunk),
                 "finish", chunk)
    /\ calls' = calls + 1
    /\ UNCHANGED <<pc, scopes>>

SetStatus ==
    /\ Running
    /\ \E status \in {304, 404} :
         Becomes(set_status(World, status), "set_status", "status")
    /\ calls' = calls + 1
    /\ UNCHANGED <<pc, scopes>>

SetHeader ==
    /\ Running
    /\ \E nv \in {<<"Etag", "\"app\"">>, <<"Content-Length", 7>>} :
         Becomes(set_header(World, nv[1], nv[2]), "set_header", nv[1])
    /\ calls' = calls + 1
    /\ UNCHANGED <<pc, scopes>>

\* the application registers a close callback on the connection
SetCloseCallback ==
    /\ Running
    /\ connection.close_callback = "none"
    /\ Becomes([World EXCEPT !.c.close_callback = "on_connection_close"],
               "set_close_callback", "on_connection_close")
    /\ calls' = calls + 1
    /\ UNCHANGED <<pc, scopes>>

\* the transport has written everything it was given
WriteComplete ==
    /\ connection.write_callback # <<>>
    /\ Becomes(on_write_complete(World), "_on_write_complete",
               connection.write_callback[1].callback)
    /\ UNCHANGED <<pc, calls, scopes>>

Next ==
    \/ Execute
    \/ PrepareResolve
    \/ DispatchReturn
    \/ DispatchRaise
    \/ Write
    \/ Flush
    \/ Finish
    \/ SetStatus
    \/ SetHeader
    \/ SetCloseCallback
    \/ WriteComplete

Spec == Init /\ [][Next]_vars

\* the transport serving one request after another through __call__
ServeNext ==
    \/ Call
    \/ PrepareResolve
    \/ DispatchReturn
    \/ DispatchRaise
    \/ Finish
    \/ Accept

ServeSpec == Init /\ [][ServeNext]_vars

\* a GET or HEAD request run with output transforms
TransformInit ==
    /\ Init
    /\ request.method \in {"GET", "HEAD"}
    /\ application.SUPPORTED_METHODS = TornadoSupported
    /\ ~application.settings.xsrf_cookies

TransformNext ==
    \/ ExecuteTransforms
    \/ PrepareResolve
    \/ DispatchReturn
    \/ Write
    \/ Flush
    \/ Finish

TransformSpec == TransformInit /\ [][TransformNext]_vars

(***************************************************************************)
(* The claims.                                                             *)
(***************************************************************************)
Writes == connection.writes
WritesSince == Len(connection.writes) - last.pre.writes

\* C1: finish() on a handler that finish() has already finished raises the
\* double-finish RuntimeError and issues no transport write and no
\* transport finish().
C1_DoubleFinishRaises ==
    (last.op = "finish" /\ last.pre.h.finished) =>
        /\ last.err = "RuntimeError"
        /\ Len(connection.writes) = last.pre.writes
        /\ connection.finished = last.pre.finished

C1_Witness ==
    /\ last.op = "finish"
    /\ last.pre.h.finished
    /\ last.err = "RuntimeError"
    /\ connection.finished = 1

\* C2: once the finished flag is true, no call on the handler (write, flush
\* or finish) changes the write buffer.
C2_NoBufferMutationAfterFinished ==
    last.pre.h.finished => handler.write_buffer = last.pre.h.write_buffer

C2_Witness ==
    /\ last.pre.h.finished
    /\ last.op = "write"
    /\ last.err = "RuntimeError"
    /\ handler.write_buffer = <<>>

\* C3: headers_written goes from false to true once, in the first flush, and
\* never back: the header block is generated exactly once, the first
\* transport write carries it and no later transport write carries headers.
C3_HeadersWrittenOnce ==
    /\ last.pre.h.headers_written => handler.headers_written
    /\ hooks.generated = IF handler.headers_written THEN 1 ELSE 0
    /\ handler.headers_written <=> Writes # <<>>
    /\ \A i \in 1..Len(Writes) : (Writes[i].head # <<>>) <=> (i = 1)

C3_Witness ==
    /\ Len(Writes) >= 2
    /\ Writes[1].head # <<>>
    /\ Writes[2].head = <<>>
    /\ handler.finished

\* C4: for a HEAD request no transport write carries body bytes, whatever
\* the write buffer held.
C4_HeadSendsNoBody ==
    request.method = "HEAD" => \A i \in 1..Len(Writes) : Writes[i].body = ""

C4_Witness ==
    /\ request.method = "HEAD"
    /\ last.op \in {"flush", "finish"}
    /\ last.pre.h.write_buffer # <<>>
    /\ WritesSince = 1
    /\ Writes[Len(Writes)].body = ""

\* the chunks in the write buffer when the last finish() reached its
\* header work: the buffer it found and the chunk it was given
BufferAtFinish ==
    IF last.arg = NoChunk THEN last.pre.h.write_buffer
    ELSE Append(last.pre.h.write_buffer, last.arg)

FinishReturned == last.op = "finish" /\ last.err = NoError
FirstBlock == Writes[1].head[1]
Matches(etag) == \E i \in 1..Len(request.if_none_match) : request.if_none_match[i] = etag

\* finish() on a GET/HEAD response with status 200 and no ETag of the application
EtagCase ==
    /\ last.op = "finish"
    /\ ~last.pre.h.finished
    /\ request.method \in {"GET", "HEAD"}
    /\ last.pre.h.status_code = 200
    /\ ~Has(last.pre.h.headers, "Etag")

\* C5 as stated: for every GET/HEAD request with status 200 and no ETag set
\* by the application, finish() sets an ETag before the first flush, so the
\* header block sent to the transport contains an ETag.
C5_AsStated ==
    (EtagCase /\ FinishReturned) => Has(FirstBlock.headers, "Etag")

\* C5 (amended): for a GET/HEAD request with status 200 and no ETag set by
\* the application, finish() called while no header has been written sets
\* the ETag of the buffered chunks before the first flush, and the header
\* block that flush sends contains it.
C5_EtagSetBeforeFirstFlush ==
    (EtagCase /\ ~last.pre.h.headers_written) =>
        /\ last.err = NoError
        /\ last.pre.writes = 0
        /\ Len(Writes) = 1
        /\ Has(FirstBlock.headers, "Etag")
        /\ FirstBlock.headers["Etag"] = "\"" \o Sha1(BufferAtFinish) \o "\""

C5_Witness ==
    /\ EtagCase
    /\ ~last.pre.h.headers_written
    /\ BufferAtFinish = <<"ab", "cd">>
    /\ request.if_none_match = <<>>
    /\ FirstBlock.headers["Etag"] = "\"sha1(abcd)\""

\* the client's conditional header matches the ETag finish() computes
EtagMatchCase ==
    /\ EtagCase
    /\ ~last.pre.h.headers_written
    /\ Matches("\"" \o Sha1(BufferAtFinish) \o "\"")

\* C6: when the client's conditional header matches the ETag computed in
\* finish(), the response ends with status 304, the final flush finds the
\* write buffer empty and sends no body bytes, and no header disallowed on a
\* 304 is in the header block.
C6_MatchGives304 ==
    EtagMatchCase =>
        /\ last.err = NoError
        /\ handler.finished
        /\ handler.status_code = 304
        /\ Len(Writes) = 1
        /\ FirstBlock.status = 304
        /\ Writes[1].body = ""
        /\ (DOMAIN FirstBlock.headers) \cap Disallowed304 = {}

C6_Witness ==
    /\ EtagMatchCase
    /\ request.method = "GET"
    /\ BufferAtFinish = <<"ab", "cd">>
    /\ FirstBlock.status = 304
    /\ connection.finished = 1

\* C7 as stated: whenever Content-Length was not explicitly set, the
\* Content-Length of the response is the sum of the byte lengths of the
\* chunks buffered at finish() time, and the first flush sends a header block
\* with that value followed by the concatenation of the chunks.
C7_AsStated ==
    (FinishReturned /\ ~Has(last.pre.h.headers, "Content-Length")) =>
        /\ Has(FirstBlock.headers, "Content-Length")
        /\ FirstBlock.headers["Content-Length"] = SumLen(BufferAtFinish)
        /\ Writes[1].body = Join(BufferAtFinish)

\* C7 (amended): when finish() runs while no header has been written, the
\* final status is not 304 and Content-Length was not explicitly set, the
\* Content-Length header is the sum of the byte lengths of the chunks
\* buffered at finish() time (the final chunk included), and the first flush
\* sends a header block with that value followed by the concatenation of the
\* chunks in order (by the header block alone for a HEAD request).
C7_ContentLengthIsBufferedBytes ==
    ( /\ FinishReturned
      /\ ~last.pre.h.headers_written
      /\ handler.status_code # 304
      /\ ~Has(last.pre.h.headers, "Content-Length") ) =>
        /\ Len(Writes) = 1
        /\ Has(FirstBlock.headers, "Content-Length")
        /\ FirstBlock.headers["Content-Length"] = SumLen(BufferAtFinish)
        /\ Writes[1].body = IF request.method = "HEAD" THEN ""
                            ELSE Join(BufferAtFinish)

C7_Witness ==
    /\ FinishReturned
    /\ last.pre.h.write_buffer = <<"ab", "cd">>
    /\ last.arg = NoChunk
    /\ request.method = "GET"
    /\ FirstBlock.headers["Content-Length"] = 4
    /\ Writes = <<[head |-> <<FirstBlock>>, body |-> "abcd", callback |-> NoCallback]>>

Executed == pc # "new"
Supported == request.method \in application.SUPPORTED_METHODS
BodyBearing == request.method \notin {"GET", "HEAD", "OPTIONS"}
XsrfOn == application.settings.xsrf_cookies

\* C8: a request whose method is not in the handler's supported-method set
\* fails in _execute with HTTP 405 before prepare(): the XSRF check,
\* prepare() and the routing collaborator never run for it.
C8_UnsupportedMethodIs405 ==
    ~Supported =>
        /\ hooks.xsrf_checks = 0
        /\ hooks.prepare_calls = 0
        /\ hooks.route_calls = 0
        /\ Executed =>
             /\ pc = "error"
             /\ hooks.exc_handled = <<"HTTPError(405)">>
             /\ FirstBlock.status = 405
             /\ handler.finished

C8_Witness ==
    /\ request.method = "PUT"
    /\ application.SUPPORTED_METHODS = {"GET", "HEAD"}
    /\ XsrfOn
    /\ request.xsrf_token = "missing"
    /\ last.op = "_execute"
    /\ hooks.exc_handled = <<"HTTPError(405)">>
    /\ FirstBlock.status = 405

\* what C9 says of a request that has been through _execute; checked is
\* whether the XSRF check applies to the request
XsrfRule(checked) ==
    Executed =>
        IF checked
        THEN /\ hooks.xsrf_checks = 1
             /\ request.xsrf_token # "valid" =>
                  /\ hooks.exc_handled = <<"HTTPError(403)">>
                  /\ FirstBlock.status = 403
                  /\ hooks.prepare_calls = 0
                  /\ hooks.route_calls = 0
        ELSE hooks.xsrf_checks = 0

\* C9 as stated: with xsrf_cookies enabled and a body-bearing method (not
\* GET, HEAD or OPTIONS) a request with a missing or mismatched XSRF token
\* fails with the XSRF error before prepare() and before the routing
\* collaborator; otherwise no XSRF check is made.
C9_AsStated == XsrfRule(XsrfOn /\ BodyBearing)

\* C9 (amended): with xsrf_cookies enabled and a body-bearing method (not
\* GET, HEAD or OPTIONS) that is in the handler's supported-method set, a
\* request with a missing or mismatched XSRF token fails with the XSRF error
\* before prepare() and before the routing collaborator; for GET, HEAD and
\* OPTIONS, or with xsrf_cookies disabled, no XSRF check is made.
C9_XsrfBeforePrepare ==
    /\ XsrfRule(XsrfOn /\ BodyBearing /\ Supported)
    /\ (~BodyBearing \/ ~XsrfOn) => hooks.xsrf_checks = 0

C9_Witness ==
    /\ request.method = "POST"
    /\ XsrfOn
    /\ request.xsrf_token = "missing"
    /\ last.op = "_execute"
    /\ hooks.exc_handled = <<"HTTPError(403)">>
    /\ hooks.route_calls = 0
    /\ handler.finished

\* C10: an exception raised during _execute's sequence (method validation,
\* XSRF check, prepare(), method dispatch) is passed to the request's
\* exception handler exactly once and does not leave _execute.
C10_ExceptionsAreHandledOnce ==
    last.op \in {"_execute", "_when_complete", "_handle_request"} =>
        /\ last.err = NoError
        /\ hooks.raised - last.pre.raised <= 1
        /\ Len(hooks.exc_handled) - last.pre.exc_handled = hooks.raised - last.pre.raised

C10_Witness ==
    /\ last.op = "_execute"
    /\ last.arg = "raise"
    /\ hooks.prepare_calls = 1
    /\ hooks.exc_handled = <<"Exception">>
    /\ FirstBlock.status = 500
    /\ handler.finished

\* the callback the connection keeps, if any
Outstanding == connection.write_callback

\* C11 as stated: at most one flush callback is outstanding, and a flush
\* (the final flush of finish() included) issued before the previous flush's
\* callback has fired discards that callback, which is then never invoked.
C11_AsStated ==
    /\ Len(Outstanding) <= 1
    /\ Outstanding # <<>> => Outstanding[1].flush = hooks.flushes
    /\ \A i \in 1..Len(hooks.invoked) : hooks.invoked[i].flush = hooks.invoked[i].at

\* C12 as stated: every call to flush(callback) issues a transport write
\* carrying that callback, whatever the request method and whether or not
\* the headers were already written.
C12_AsStated ==
    last.op = "flush" =>
        /\ WritesSince = 1
        /\ Writes[Len(Writes)].callback = last.arg
        /\ last.arg # NoCallback =>
             Outstanding = <<[callback |-> last.arg, flush |-> hooks.flushes]>>

\* the request scope of the request being served, and what __call__ does
\* with it before _execute runs and after it has returned
RequestScope == scopes.used[Len(scopes.used)]
Entered == <<[ev |-> "enter", scope |-> AppScope],
             [ev |-> "enter", scope |-> RequestScope],
             [ev |-> "handler", scope |-> RequestScope],
             [ev |-> "_execute", scope |-> RequestScope]>>
Left == <<[ev |-> "exit", scope |-> RequestScope],
          [ev |-> "exit", scope |-> AppScope]>>

\* C13: for every request Application.__call__ enters the application
\* scope, then a newly created request scope inside it, constructs one
\* handler and calls its _execute with an empty transform list; both scopes
\* are left, the request scope first, when _execute returns, whether or not
\* the response is finished by then; no two requests share a request scope.
C13_ScopesPerRequest ==
    /\ pc = "new" => (scopes.stack = <<>> /\ scopes.log = <<>>)
    /\ pc # "new" =>
         /\ scopes.used # <<>>
         /\ handler.transforms = <<>>
         /\ \/ /\ pc = "dispatch"
               /\ scopes.stack = <<AppScope, RequestScope>>
               /\ scopes.log = Entered
            \/ /\ scopes.stack = <<>>
               /\ scopes.log = Entered \o Left
         /\ pc \in {"prepare", "returned", "error"} => scopes.stack = <<>>
    /\ scopes.created = Len(scopes.used)
    /\ \A i \in 1..Len(scopes.used) :
         /\ scopes.used[i] # AppScope
         /\ \A j \in 1..Len(scopes.used) : i # j => scopes.used[i] # scopes.used[j]

C13_Witness ==
    /\ scopes.used = <<1, 2>>
    /\ pc = "prepare"
    /\ ~handler.finished
    /\ connection.finished = 0
    /\ scopes.stack = <<>>
    /\ scopes.log = Entered \o Left

\* C14: on the non-error path the framework never finishes a response on
\* its own: while the application has not called finish() and no exception
\* was handled, the handler is not finished and transport finish() has not
\* been called, also after _execute and root._handle_request have returned.
C14_NoAutoFinish ==
    (hooks.exc_handled = <<>> /\ hooks.app_finish = 0) =>
        /\ ~handler.finished
        /\ connection.finished = 0
        /\ ~handler.auto_finish

C14_Witness ==
    /\ pc = "returned"
    /\ hooks.route_calls = 1
    /\ hooks.exc_handled = <<>>
    /\ hooks.app_finish = 0
    /\ Writes # <<>>
    /\ ~handler.finished
    /\ connection.finished = 0

\* finish() entered with status 304 and chunks to send
Body304Case ==
    /\ last.op = "finish"
    /\ ~last.pre.h.finished
    /\ last.pre.h.status_code = 304
    /\ BufferAtFinish # <<>>

Sends304WithBody(i) ==
    /\ Writes[i].head # <<>>
    /\ Writes[i].head[1].status = 304
    /\ Writes[i].body # ""

\* C15 as stated: whenever finish() runs with final status 304 and a
\* non-empty write buffer it fails with an assertion error, without a
\* transport write or transport finish() and without marking the handler
\* finished; no response with status 304 ever sends body bytes.
C15_AsStated ==
    /\ Body304Case =>
         /\ last.err = "AssertionError"
         /\ WritesSince = 0
         /\ connection.finished = last.pre.finished
         /\ ~handler.finished
    /\ \A i \in 1..Len(Writes) : ~Sends304WithBody(i)

\* The part of C15 the assertion does enforce: a finish() that runs while
\* no header has been written, with status 304 and a non-empty write buffer,
\* fails with an assertion error, without a transport write or transport
\* finish() and without marking the handler finished, and the header block a
\* finish() sends with status 304 is not followed by body bytes.
AssertOn304Body ==
    /\ (Body304Case /\ ~last.pre.h.headers_written) =>
         /\ last.err = "AssertionError"
         /\ WritesSince = 0
         /\ connection.finished = last.pre.finished
         /\ ~handler.finished
         /\ ~handler.headers_written
    /\ (FinishReturned /\ ~last.pre.h.headers_written) => ~Sends304WithBody(1)

AssertOn304BodyCase ==
    /\ Body304Case
    /\ ~last.pre.h.headers_written
    /\ last.arg = "ab"
    /\ last.err = "AssertionError"
    /\ handler.write_buffer # <<>>
    /\ Writes = <<>>

\* the steps of a finish() that returns, in the order the claim gives
FinishOrder == <<"set_close_callback(None)", "flush", "request.finish", "_log",
                 "_finished = True", "on_finish">>

FooterFlushes == {i \in 1..Len(hooks.footers) : hooks.footers[i]}

\* C16: a successful finish() detaches the connection's close callback, then
\* makes exactly one flush with include_footers true, then calls transport
\* finish(), then sets the finished flag, then runs on_finish(); on_finish()
\* only ever runs on a finished handler, once per finished request.
C16_FinishOrder ==
    /\ hooks.trace = IF handler.finished THEN FinishOrder ELSE <<>>
    /\ hooks.on_finish = IF handler.finished THEN <<TRUE>> ELSE <<>>
    /\ Cardinality(FooterFlushes) = IF handler.finished THEN 1 ELSE 0
    /\ handler.finished => connection.finished = 1
    /\ FinishReturned =>
         /\ handler.finished
         /\ connection.close_callback = "none"
         /\ hooks.flushes = last.pre.flushes + 1
         /\ hooks.footers[hooks.flushes]
         /\ connection.finished = last.pre.finished + 1

C16_Witness ==
    /\ FinishReturned
    /\ last.pre.close_callback = "on_connection_close"
    /\ connection.close_callback = "none"
    /\ last.pre.flushes = 1
    /\ hooks.footers = <<FALSE, TRUE>>
    /\ hooks.on_finish = <<TRUE>>

\* C17: root._handle_request is invoked only after prepare() has completed
\* and at most once per request: once when method validation, the XSRF
\* check and prepare() have all succeeded, never when one of them fails or
\* while prepare() is pending.
C17_RoutedOnceAfterPrepare ==
    /\ hooks.route_calls = IF hooks.prepared = "done" THEN 1 ELSE 0
    /\ hooks.prepare_calls = IF hooks.prepared = "no" THEN 0 ELSE 1
    /\ hooks.prepared = "done" =>
         /\ Supported
         /\ (XsrfOn /\ BodyBearing) => request.xsrf_token = "valid"
         /\ pc \in {"dispatch", "returned", "error"}
    /\ pc = "prepare" <=> hooks.prepared = "pending"
    /\ pc \in {"dispatch", "returned"} => hooks.prepared = "done"

C17_Witness ==
    /\ last.op = "_when_complete"
    /\ last.arg = "none"
    /\ hooks.prepared = "done"
    /\ hooks.route_calls = 1
    /\ pc = "dispatch"
    /\ handler.finished

\* the names of the transforms, and the marks they leave on a chunk, in list
\* order
RECURSIVE NamesOf(_)
NamesOf(ts) ==
    IF ts = <<>> THEN "" ELSE NamesOf(SubSeq(ts, 1, Len(ts) - 1)) \o ts[Len(ts)]

RECURSIVE MarksOf(_, _, _)
MarksOf(ts, first, include_footers) ==
    IF ts = <<>> THEN ""
    ELSE MarksOf(SubSeq(ts, 1, Len(ts) - 1), first, include_footers)
         \o (IF first THEN "<" ELSE "(") \o ts[Len(ts)] \o Footer(include_footers)
         \o (IF first THEN ">" ELSE ")")

\* a flush() of the application, or the flush of a finish() that returned,
\* that reached the transport
Flushed == (last.op = "flush" \/ FinishReturned) /\ WritesSince = 1

\* C18: on every flush the transforms are applied in list order, each to the
\* output of the one before: on the first flush transform_first_chunk of
\* each, replacing status, headers and chunk before the header block is
\* generated, on every later flush transform_chunk only; so
\* transform_first_chunk runs once per transform per request, and
\* include_footers is true only for the flush finish() makes.
C18_TransformsInOrder ==
    /\ Flushed =>
         LET wr == Writes[Len(Writes)]
             first == ~last.pre.h.headers_written
             include_footers == (last.op = "finish")
             chunk == IF last.op = "flush" THEN Join(last.pre.h.write_buffer)
                      ELSE IF first /\ wr.head[1].status = 304 THEN ""
                      ELSE Join(BufferAtFinish)
         IN  /\ request.method # "HEAD" =>
                  wr.body = chunk \o MarksOf(handler.transforms, first, include_footers)
             /\ first <=> wr.head # <<>>
             /\ first => IF handler.transforms = <<>>
                         THEN ~Has(wr.head[1].headers, "X-Transform")
                         ELSE /\ Has(wr.head[1].headers, "X-Transform")
                              /\ wr.head[1].headers["X-Transform"]
                                   = NamesOf(handler.transforms)
             /\ hooks.footers[hooks.flushes] = include_footers
    /\ (handler.headers_written /\ handler.transforms # <<>>) =>
         /\ Has(handler.headers, "X-Transform")
         /\ handler.headers["X-Transform"] = NamesOf(handler.transforms)
    /\ last.op = "flush" => ~hooks.footers[hooks.flushes]

C18_Witness ==
    /\ FinishReturned
    /\ handler.transforms = <<"gz", "ch">>
    /\ Len(Writes) = 2
    /\ Writes[1].head[1].headers["X-Transform"] = "gzch"
    /\ Writes[1].body = "ab<gz><ch>"
    /\ Writes[2].head = <<>>
    /\ Writes[2].body = "cd(gz$)(ch$)"

\* C19 as stated: transport finish() is called at most once, and no
\* transport write is issued after transport finish() has been called.
C19_AsStated ==
    /\ connection.finished <= 1
    /\ last.pre.finished >= 1 => WritesSince = 0

\* The writes that do follow transport finish(): only a flush() called after
\* finish() on a request that is not HEAD issues one, with no headers and no
\* body bytes; write() and finish() issue none, and transport finish() is
\* called at most once.
OnlyFlushWritesAfterFinish ==
    /\ connection.finished <= 1
    /\ last.pre.finished >= 1 =>
         \/ WritesSince = 0
         \/ /\ last.op = "flush"
            /\ request.method # "HEAD"
            /\ WritesSince = 1
            /\ Writes[Len(Writes)].head = <<>>
            /\ Writes[Len(Writes)].body = ""

FlushAfterFinishCase ==
    /\ last.pre.finished = 1
    /\ last.pre.h.finished
    /\ last.op = "flush"
    /\ WritesSince = 1
    /\ connection.finished = 1

\* C20: in every reachable state finished implies headers_written and an
\* empty write buffer.
C20_FinishedImpliesFlushed ==
    handler.finished => (handler.headers_written /\ handler.write_buffer = <<>>)

C20_Witness ==
    /\ FinishReturned
    /\ ~last.pre.h.headers_written
    /\ last.pre.h.write_buffer = <<"ab", "cd">>
    /\ handler.finished
    /\ handler.headers_written
    /\ handler.write_buffer = <<>>

====
